---- MODULE Spec2Model ----
(***************************************************************************)
(* The DNS server browser of avahi (avahi-core, browse-dns-server): a      *)
(* record watch for SRV records feeds record_browser_callback, which keeps *)
(* a list of AvahiDNSServerInfo entries and starts one host name resolver  *)
(* per entry; host_name_resolver_callback reports resolved servers to the  *)
(* caller's callback.  The caller's callback runs inside the handlers and  *)
(* may free the browser.                                                   *)
(*                                                                         *)
(* The module also holds the test program of the glib poll adapter         *)
(* (avahi-glib, glib-watch-test): a main loop with a watch on stdin and a  *)
(* wakeup that re-arms itself and stops the loop.                          *)
(***************************************************************************)
EXTENDS Integers, Sequences, FiniteSets, TLC

VARIABLES
    scenario,             \* which network the server is attached to
    browsers,             \* memory of the AvahiDNSServerBrowser structs
    dns_server_browsers,  \* server->dns_server_browsers (the registry list)
    record_browsers,      \* the record watches alive in the server
    resolvers,            \* the host name resolvers alive in the server
    errno,                \* the server's error code
    known,                \* the caller's view: servers announced and not withdrawn
    ignored,              \* the network's view: keys whose last SRV NEW met the limit
    last,                 \* the last call: its arguments, result and public events
    crashed,              \* the process was aborted
    test_pc,              \* glib-watch-test: where main is ("off": not run)
    wakeup_i,             \* glib-watch-test: static int i of wakeup
    wakeup_set,           \* glib-watch-test: the poll has a wakeup armed
    stdin_watch,          \* glib-watch-test: the watch on fd 0
    loop_quit,            \* glib-watch-test: g_main_loop_quit was called
    stdin,                \* glib-watch-test: what is left to read from fd 0
    stdout,               \* glib-watch-test: the last line printed
    invocations,          \* glib-watch-test: how often wakeup has run
    exit_status           \* glib-watch-test: what main returned

server_vars == <<scenario, browsers, dns_server_browsers, record_browsers,
                 resolvers, errno, known, ignored, last, crashed>>
test_vars == <<test_pc, wakeup_i, wakeup_set, stdin_watch, loop_quit, stdin,
               stdout, invocations, exit_status>>
vars == <<server_vars, test_vars>>

-----------------------------------------------------------------------------
(* Bounds of the model. *)

\* browsers that can be alive at once in the construct scenario
MaxBrowsers == 2
\* advertisements of the bound scenario that stay tracked once announced
NumStable == 8
\* bytes that can be read from the stdin of the test program
MaxInput == 2

(* Program constants. *)

\* if (b->n_info >= 10) return;
MaxInfo == 10

NULL == 0
Uninit == "uninitialized"

(* The server is checked in three surroundings:                            *)
(*   construct  several browsers are made and freed, with every failure of *)
(*              the constructor, over a network with one advertisement;    *)
(*   pipeline   one browser over a network whose advertisements differ in  *)
(*              interface and TTL and resolve to two addresses;            *)
(*   bound      one browser over a network with more advertisements than   *)
(*              the browser tracks, which differ in protocol and target.   *)
Scenarios == {"construct", "pipeline", "bound"}

BrowserIds == 1 .. MaxBrowsers
BrowserLimit(sc) == IF sc = "construct" THEN MaxBrowsers ELSE 1

\* the entry cells avahi_new can hand out: one per advertisement of the
\* construct and the pipeline scenario, and one more than the program's limit
\* in the bound scenario
CellLimit(sc) ==
    IF sc = "construct" THEN 1
    ELSE IF sc = "pipeline" THEN 2
    ELSE MaxInfo + 1

Addresses == {"192.0.2.1", "192.0.2.2"}
\* what a read of a never written address can yield
AddressValues == Addresses \cup {"garbage"}
\* the addresses the hosts of a scenario resolve to
Resolvable(sc) == IF sc = "pipeline" THEN Addresses ELSE {"192.0.2.1"}

\* an SRV record: target host name ("host<n>.local"), port and time to live
Record(n, p, t) == [name |-> n, port |-> p, ttl |-> t]

\* what the record watch can report in a scenario: <<interface, protocol, record>>
VariedSrv(sc) ==
    IF sc = "construct" THEN {<<1, "INET", Record(1, 5353, 120)>>}
    ELSE IF sc = "pipeline"
    THEN {<<1, "INET", Record(1, 5353, 120)>>, <<1, "INET", Record(1, 5353, 4500)>>,
          <<2, "INET", Record(1, 5353, 120)>>}
    ELSE {<<1, "INET", Record(1, 5353, 120)>>, <<1, "INET6", Record(1, 5353, 120)>>,
          <<1, "INET", Record(2, 5353, 120)>>}
StableRecord(k) == Record(100 + k, 53, 120)
StableSrv == {<<1, "INET", StableRecord(k)>> : k \in 1 .. NumStable}

\* domain names as label sequences; NoDomain is the NULL pointer
NoDomain == <<"NULL">>
Domains == {NoDomain, <<"local">>, <<"local", "">>, <<"bad", "", "name">>}
\* the errors avahi_record_browser_new reports
WatchErrors == {"AVAHI_ERR_NO_MEMORY", "AVAHI_ERR_INVALID_KEY"}

-----------------------------------------------------------------------------
(* External collaborators (avahi-common/domain, avahi-core/rr). *)

\* every label but a trailing one (the root) is non-empty
avahi_is_valid_domain_name(d) ==
    /\ Len(d) >= 1
    /\ \A k \in 1 .. Len(d) : d[k] = "" => (k = Len(d) /\ k > 1)

\* drops the trailing dot
avahi_normalize_name(d) ==
    IF Len(d) > 1 /\ d[Len(d)] = "" THEN SubSeq(d, 1, Len(d) - 1) ELSE d

avahi_record_equal_no_ttl(a, b) ==
    a.name = b.name /\ a.port = b.port

-----------------------------------------------------------------------------
(* The memory the handlers work on, passed around as one record. *)

Mem == [browsers |-> browsers,
        dns_server_browsers |-> dns_server_browsers,
        record_browsers |-> record_browsers,
        resolvers |-> resolvers]

Store(m) ==
    /\ browsers' = m.browsers
    /\ dns_server_browsers' = m.dns_server_browsers
    /\ record_browsers' = m.record_browsers
    /\ resolvers' = m.resolvers

\* memory that holds no AvahiDNSServerBrowser (never allocated, or freed): its
\* content is indeterminate and is not modelled
FreedBrowser ==
    [alive |-> FALSE, domain_name |-> NoDomain, record_browser |-> NULL,
     n_info |-> 0, info |-> <<>>]

\* struct AvahiDNSServerInfo right after avahi_new: the address is not written
AvahiDNSServerInfo(cell, interface, protocol, record, hnr) ==
    [id |-> cell, interface |-> interface, protocol |-> protocol,
     srv_record |-> record, host_name_resolver |-> hnr, address |-> Uninit]

RemoveAt(s, k) == SubSeq(s, 1, k - 1) \o SubSeq(s, k + 1, Len(s))

SetMin(S) == CHOOSE x \in S : \A y \in S : x <= y

AliveBrowsers(m) == {b \in BrowserIds : m.browsers[b].alive}

\* the memory avahi_new can hand out for a browser
FreeBrowsers(m) == (1 .. BrowserLimit(scenario)) \ AliveBrowsers(m)

\* the entry cells in use
LiveCells(m) ==
    UNION {{m.browsers[b].info[k].id : k \in 1 .. Len(m.browsers[b].info)} :
              b \in AliveBrowsers(m)}

\* the cells avahi_new can hand out
FreeCells(m) == (1 .. CellLimit(scenario)) \ LiveCells(m)

\* where the entry stored in a cell is: <<browser, position in b->info>>
CellLocations(m, cell) ==
    UNION {{<<b, k>> : k \in {j \in 1 .. Len(m.browsers[b].info) :
                                  m.browsers[b].info[j].id = cell}} :
              b \in AliveBrowsers(m)}

-----------------------------------------------------------------------------
(* The public callback: b->callback(b, interface, protocol, event, name,   *)
(* &address, port, userdata).                                              *)

PublicEvent(kind, b, i, a) ==
    [kind |-> kind, browser |-> b, interface |-> i.interface,
     protocol |-> i.protocol, name |-> i.srv_record.name,
     address |-> a, port |-> i.srv_record.port]

\* the key (browser, interface, protocol, record without TTL) an event is about
EventKey(e) == <<e.browser, e.interface, e.protocol, e.name, e.port>>

\* AvahiResolverEvent
ResolverEvents == {"AVAHI_RESOLVER_FOUND", "AVAHI_RESOLVER_TIMEOUT"}

\* what the caller may do inside its callback
CallbackMoves == {"return", "free"}
\* what a build does after touching freed memory
UbOutcomes == {"abort", "continue"}

\* the caller's bookkeeping: NEW adds a server, REMOVE withdraws the server of
\* that key, and freeing the browser forgets all of its servers
RECURSIVE KnownAfter(_, _)
KnownAfter(kn, evs) ==
    IF evs = <<>> THEN kn
    ELSE LET e == Head(evs)
             one == [browser |-> e.browser, interface |-> e.interface,
                     protocol |-> e.protocol, name |-> e.name,
                     address |-> e.address, port |-> e.port]
         IN  KnownAfter(IF e.kind = "AVAHI_BROWSER_NEW"
                        THEN kn \cup {one}
                        ELSE {x \in kn : EventKey(x) # EventKey(e)},
                        Tail(evs))

Forget(kn, b) == {x \in kn : x.browser # b}

\* the key of an SRV report to browser b
SrvKey(b, interface, protocol, r) == <<b, interface, protocol, r.name, r.port>>
\* the network's bookkeeping when browser b is freed
ForgetKeys(ks, b) == {x \in ks : x[1] # b}

-----------------------------------------------------------------------------
(* get_server_info: the position of the first entry of b->info with the    *)
(* interface, the protocol and the record (TTL ignored), or NULL.          *)

\* (the lookup gone wrong: the records are compared with their TTL)
get_server_info_with_ttl(m, b, interface, protocol, r) ==
    LET info == m.browsers[b].info
        hits == {k \in 1 .. Len(info) :
                    /\ info[k].interface = interface
                    /\ info[k].protocol = protocol
                    /\ r = info[k].srv_record}
    IN  IF hits = {} THEN NULL ELSE SetMin(hits)

get_server_info(m, b, interface, protocol, r) ==
    LET info == m.browsers[b].info
        hits == {k \in 1 .. Len(info) :
                    /\ info[k].interface = interface
                    /\ info[k].protocol = protocol
                    /\ avahi_record_equal_no_ttl(r, info[k].srv_record)}
    IN  IF hits = {} THEN NULL ELSE SetMin(hits)

\* (the destruction gone wrong: the resolver of the entry is left running)
server_info_free_keeps_resolver(m, b, k) ==
    [m EXCEPT
        !.browsers[b].info = RemoveAt(@, k),
        !.browsers[b].n_info = IF @ >= 1 THEN @ - 1 ELSE @]

\* (the destruction gone wrong: the entry is not counted out)
server_info_free_keeps_count(m, b, k) ==
    LET i == m.browsers[b].info[k]
    IN  [m EXCEPT
            !.resolvers = IF i.host_name_resolver # NULL
                          THEN @ \ {i.host_name_resolver} ELSE @,
            !.browsers[b].info = RemoveAt(@, k)]

(* server_info_free(b, i) for an entry i at position k of the live b.  The  *)
(* assertion guards the decrement, so that n_info never wraps.             *)
server_info_free(m, b, k) ==
    LET i == m.browsers[b].info[k]
    IN  [m EXCEPT
            !.resolvers = IF i.host_name_resolver # NULL
                          THEN @ \ {i.host_name_resolver} ELSE @,
            !.browsers[b].info = RemoveAt(@, k),
            !.browsers[b].n_info = IF @ >= 1 THEN @ - 1 ELSE @]

\* assert(b->n_info >= 1) in server_info_free
AssertNInfo(m, b) == m.browsers[b].n_info >= 1

(* avahi_dns_server_browser_free *)
RECURSIVE FreeInfos(_, _)
FreeInfos(m, b) ==
    IF m.browsers[b].info = <<>> THEN m
    ELSE FreeInfos(server_info_free(m, b, 1), b)

avahi_dns_server_browser_free(m, b) ==
    LET m1 == FreeInfos(m, b)
        reg == m1.dns_server_browsers
        at == {k \in 1 .. Len(reg) : reg[k] = b}
    IN  [m1 EXCEPT
            !.dns_server_browsers = IF at = {} THEN @ ELSE RemoveAt(@, SetMin(at)),
            !.record_browsers = IF m1.browsers[b].record_browser # NULL
                                THEN {w \in @ : w.handle # m1.browsers[b].record_browser}
                                ELSE @,
            !.browsers[b] = FreedBrowser]

-----------------------------------------------------------------------------
(* What the last call was and what it did. *)

NoRecord == Record(0, 0, 0)

\* op, its arguments (browser, cell: the userdata, or the entry an SRV event
\* created or destroyed; event, interface, protocol, record, address; domain), what its surroundings answered (alloc_ok, hnr_ok,
\* watch), the public events it emitted in order, the freed memory it used,
\* and what it returned
NoCall ==
    [op |-> "none", browser |-> NULL, cell |-> NULL, event |-> "",
     interface |-> 0, protocol |-> "", record |-> NoRecord, address |-> "",
     domain |-> NoDomain, alloc_ok |-> TRUE, hnr_ok |-> TRUE, watch |-> "",
     emitted |-> <<>>, faults |-> {}, ret |-> NULL]

\* a handler that touched freed memory aborts or goes on, as the build has it
Undefined(faults, ub) == faults # {} /\ ub = "abort"

-----------------------------------------------------------------------------
(* avahi_dns_server_browser_new.  The interface and protocol restriction,  *)
(* the query key made of the service type and the domain, and aprotocol    *)
(* are handed on to the record watch and the resolver, which keep them;    *)
(* they are not part of the browser's state.                               *)

\* (the check gone wrong: no domain is rejected)
DomainNeverRejected(domain) == FALSE

\* if (domain && !avahi_is_valid_domain_name(domain))
DomainRejected(domain) ==
    domain # NoDomain /\ ~avahi_is_valid_domain_name(domain)

\* (the check gone wrong: a failed record watch goes unnoticed)
WatchNeverMissing(m, b) == FALSE

\* if (!b->record_browser)
WatchMissing(m, b) == m.browsers[b].record_browser = NULL

avahi_dns_server_browser_new(domain, allocOK, watch) ==
    /\ ~crashed
    /\ LET free == FreeBrowsers(Mem)
           call(ret) == [NoCall EXCEPT !.op = "avahi_dns_server_browser_new",
                                       !.domain = domain,
                                       !.alloc_ok = allocOK, !.watch = watch,
                                       !.ret = ret]
       IN  IF DomainRejected(domain)
           THEN /\ errno' = "AVAHI_ERR_INVALID_DOMAIN_NAME"
                /\ last' = call(NULL)
                /\ UNCHANGED <<browsers, dns_server_browsers, record_browsers,
                               resolvers>>
           ELSE IF ~allocOK
           THEN /\ errno' = "AVAHI_ERR_NO_MEMORY"
                /\ last' = call(NULL)
                /\ UNCHANGED <<browsers, dns_server_browsers, record_browsers,
                               resolvers>>
           ELSE LET b == SetMin(free)
                    dn == avahi_normalize_name(
                              IF domain # NoDomain THEN domain ELSE <<"local">>)
                    m1 == [Mem EXCEPT
                              !.browsers[b] =
                                  [alive |-> TRUE, domain_name |-> dn,
                                   record_browser |-> NULL, n_info |-> 0,
                                   info |-> <<>>],
                              !.dns_server_browsers = <<b>> \o @]
                    \* avahi_record_browser_new: a handle, or NULL and an error
                    m2 == IF watch = "ok"
                          THEN [m1 EXCEPT
                                   !.browsers[b].record_browser = b,
                                   !.record_browsers =
                                       @ \cup {[handle |-> b, userdata |-> b]}]
                          ELSE m1
                IN  /\ errno' = IF watch = "ok" THEN errno ELSE watch
                    /\ IF WatchMissing(m2, b)
                       THEN /\ Store(avahi_dns_server_browser_free(m2, b))
                            /\ last' = call(NULL)
                       ELSE /\ Store(m2)
                            /\ last' = call(b)
    /\ UNCHANGED <<scenario, known, ignored, crashed>>
    /\ UNCHANGED test_vars

-----------------------------------------------------------------------------
(* avahi_dns_server_browser_free called by the owner of a live browser. *)

BrowserFree(b) ==
    /\ ~crashed
    /\ browsers[b].alive
    /\ Store(avahi_dns_server_browser_free(Mem, b))
    /\ known' = Forget(known, b)
    /\ ignored' = ForgetKeys(ignored, b)
    /\ last' = [NoCall EXCEPT !.op = "avahi_dns_server_browser_free",
                              !.browser = b]
    /\ UNCHANGED <<scenario, errno, crashed>>
    /\ UNCHANGED test_vars

-----------------------------------------------------------------------------
(* record_browser_callback: the record watch of browser w.userdata reports *)
(* an SRV record that appeared (NEW) or went away (REMOVE).                *)

\* (the limit gone wrong: off by one)
AtLimitOffByOne(n) == n > MaxInfo

\* (the limit gone wrong: the last slot is never handed out)
AtLimitOneEarly(n) == n >= MaxInfo - 1

\* if (b->n_info >= 10)
AtLimit(n) == n >= MaxInfo

\* if (!i->host_name_resolver)
RemoveIsPublic(i) == i.host_name_resolver = NULL

\* &i->address as the caller reads it: a never written address is anything
ReadAddress(i, garbage) == IF i.address = Uninit THEN garbage ELSE i.address

\* the REMOVE notification of entry i
RemoveEvent(b, i, garbage) ==
    PublicEvent("AVAHI_BROWSER_REMOVE", b, i, ReadAddress(i, garbage))

record_browser_callback(w, interface, protocol, event, record, allocOK, hnrOK, garbage, cb, ub) ==
    /\ ~crashed
    /\ w \in record_browsers
    /\ LET b == w.userdata
           m0 == Mem
           hit == get_server_info(m0, b, interface, protocol, record)
           key == SrvKey(b, interface, protocol, record)
           call(cell, evs, faults) ==
               [NoCall EXCEPT !.op = "record_browser_callback", !.browser = b,
                              !.cell = cell, !.event = event, !.interface = interface,
                              !.protocol = protocol, !.record = record,
                              !.alloc_ok = allocOK, !.hnr_ok = hnrOK,
                              !.emitted = evs, !.faults = faults]
       IN  IF event = "AVAHI_BROWSER_NEW"
           THEN LET free == FreeCells(m0)
                IN  IF hit # NULL
                    THEN /\ UNCHANGED <<browsers, dns_server_browsers,
                                        record_browsers, resolvers>>
                         /\ last' = call(NULL, <<>>, {})
                         /\ UNCHANGED <<known, ignored, crashed>>
                    ELSE IF AtLimit(m0.browsers[b].n_info)
                    THEN /\ UNCHANGED <<browsers, dns_server_browsers,
                                        record_browsers, resolvers>>
                         /\ last' = call(NULL, <<>>, {})
                         /\ ignored' = ignored \cup {key}
                         /\ UNCHANGED <<known, crashed>>
                    ELSE IF ~allocOK
                    THEN /\ UNCHANGED <<browsers, dns_server_browsers,
                                        record_browsers, resolvers>>
                         /\ last' = call(NULL, <<>>, {})
                         /\ ignored' = ignored \ {key}
                         /\ UNCHANGED <<known, crashed>>
                    ELSE LET cell == SetMin(free)
                             \* avahi_host_name_resolver_new: a handle or NULL
                             hnr == IF hnrOK THEN cell ELSE NULL
                             i == AvahiDNSServerInfo(cell, interface, protocol,
                                                     record, hnr)
                             m1 == [m0 EXCEPT
                                       !.resolvers = IF hnr # NULL
                                                     THEN @ \cup {hnr} ELSE @,
                                       !.browsers[b].info = <<i>> \o @,
                                       !.browsers[b].n_info = @ + 1]
                         IN  /\ Store(m1)
                             /\ last' = call(cell, <<>>, {})
                             /\ ignored' = ignored \ {key}
                             /\ UNCHANGED <<known, crashed>>
           ELSE IF hit = NULL
           THEN /\ UNCHANGED <<browsers, dns_server_browsers, record_browsers,
                               resolvers>>
                /\ last' = call(NULL, <<>>, {})
                /\ UNCHANGED <<known, ignored, crashed>>
           ELSE LET i == m0.browsers[b].info[hit]
                    evs == IF RemoveIsPublic(i)
                           THEN <<RemoveEvent(b, i, garbage)>> ELSE <<>>
                    \* the caller frees the browser inside the notification
                    freed == evs # <<>> /\ cb = "free"
                    m1 == IF freed THEN avahi_dns_server_browser_free(m0, b)
                          ELSE m0
                    \* server_info_free(b, i) after the notification
                    \* (it reads i, unlinks i from b->info, asserts and
                    \* decrements b->n_info and frees i)
                    gone == ~m1.browsers[b].alive
                    faults ==
                        IF gone
                        THEN {"use_freed_info", "use_freed_browser",
                              "free_freed_info"}
                        ELSE IF AssertNInfo(m1, b) THEN {}
                        ELSE {"assert_n_info"}
                    abort == Undefined(faults, ub) \/ "assert_n_info" \in faults
                    m2 == IF gone THEN m1 ELSE server_info_free(m1, b, hit)
                IN  /\ Store(IF abort THEN m1 ELSE m2)
                    /\ crashed' = abort
                    /\ known' = IF freed THEN Forget(KnownAfter(known, evs), b)
                                ELSE KnownAfter(known, evs)
                    /\ ignored' = IF freed THEN ForgetKeys(ignored, b) ELSE ignored
                    /\ last' = call(i.id, evs, faults)
    /\ UNCHANGED <<scenario, errno>>
    /\ UNCHANGED test_vars

-----------------------------------------------------------------------------
(* host_name_resolver_callback: resolver h reports its result to the entry *)
(* it was started for (userdata).                                          *)

\* (the check gone wrong: every result of the resolver is announced)
AnyResolverEventIsPublic(event) == event \in ResolverEvents

\* if (event == AVAHI_RESOLVER_FOUND)
ResolverEventIsPublic(event) == event = "AVAHI_RESOLVER_FOUND"

\* (the release gone wrong: the handle is kept and the resolver runs on)
ReleaseResolverNot(m, b, k, r) == m

\* avahi_host_name_resolver_free(i->host_name_resolver);
\* i->host_name_resolver = NULL;  for the entry i at position k of the live b
ReleaseResolver(m, b, k, r) ==
    [m EXCEPT !.resolvers = @ \ {r},
              !.browsers[b].info[k].host_name_resolver = NULL]

host_name_resolver_callback(h, event, a, cb, ub) ==
    /\ ~crashed
    /\ h \in resolvers
    /\ LET locs == CellLocations(Mem, h)
           call(b, rec, evs, faults) ==
               [NoCall EXCEPT !.op = "host_name_resolver_callback", !.browser = b,
                              !.cell = h, !.event = event, !.record = rec,
                              !.address = a, !.emitted = evs, !.faults = faults]
       IN  IF locs = {}
           THEN \* userdata points to a freed entry
                /\ Store([Mem EXCEPT !.resolvers = @ \ {h}])
                /\ crashed' = Undefined({"use_freed_info"}, ub)
                /\ last' = call(NULL, NoRecord, <<>>, {"use_freed_info"})
                /\ UNCHANGED <<known, ignored>>
           ELSE LET loc == CHOOSE l \in locs : TRUE
                    b == loc[1]
                    k == loc[2]
                    found == ResolverEventIsPublic(event)
                    \* i->address = *a
                    m1 == IF found
                          THEN [Mem EXCEPT !.browsers[b].info[k].address = a]
                          ELSE Mem
                    i == m1.browsers[b].info[k]
                    evs == IF found
                           THEN <<PublicEvent("AVAHI_BROWSER_NEW", b, i, i.address)>>
                           ELSE <<>>
                    \* the caller frees the browser inside the notification
                    freed == evs # <<>> /\ cb = "free"
                    m2 == IF freed THEN avahi_dns_server_browser_free(m1, b)
                          ELSE m1
                    \* avahi_host_name_resolver_free(i->host_name_resolver);
                    \* i->host_name_resolver = NULL;  after the notification
                    gone == h \notin LiveCells(m2)
                    r == i.host_name_resolver
                    faults ==
                        (IF gone THEN {"use_freed_info"} ELSE {})
                        \cup (IF r \in m2.resolvers THEN {}
                              ELSE {"free_freed_resolver"})
                    m3 == IF gone
                          THEN [m2 EXCEPT !.resolvers = @ \ {r}]
                          ELSE ReleaseResolver(m2, b, k, r)
                IN  /\ Store(IF Undefined(faults, ub) THEN m2 ELSE m3)
                    /\ crashed' = Undefined(faults, ub)
                    /\ known' = IF freed THEN Forget(KnownAfter(known, evs), b)
                                ELSE KnownAfter(known, evs)
                    /\ ignored' = IF freed THEN ForgetKeys(ignored, b) ELSE ignored
                    /\ last' = call(b, i.srv_record, evs, faults)
    /\ UNCHANGED <<scenario, errno>>
    /\ UNCHANGED test_vars

-----------------------------------------------------------------------------
(* The server and its environment. *)

\* a server without browsers
NoBrowsers ==
    /\ browsers = [b \in BrowserIds |-> FreedBrowser]
    /\ dns_server_browsers = <<>>
    /\ record_browsers = {}
    /\ resolvers = {}
    /\ errno = "AVAHI_OK"
    /\ known = {}
    /\ ignored = {}
    /\ last = NoCall
    /\ crashed = FALSE

\* a line of output: its text and the value printed in it
Line(text, n) == [text |-> text, n |-> n]
\* main has not returned
NoStatus == -1

\* the test program before main: static int i = 0, api = NULL, loop = NULL
NotStarted ==
    /\ wakeup_i = 0
    /\ wakeup_set = FALSE
    /\ stdin_watch = "none"
    /\ loop_quit = FALSE
    /\ invocations = 0
    /\ stdout = Line("", 0)
    /\ exit_status = NoStatus

Init ==
    /\ scenario \in Scenarios
    /\ NoBrowsers
    /\ test_pc = "off"
    /\ stdin = <<>>
    /\ NotStarted

IsStable(rec) == rec.name > 100

\* the calls of the constructor: <<domain, allocOK, watch>>, where avahi_new
\* is reached with a valid domain only and the record watch after avahi_new
\* succeeded; outside the construct scenario the caller makes one browser at
\* a time, and it succeeds
NewCalls ==
    IF scenario = "construct"
    THEN {c \in Domains \X BOOLEAN \X ({"ok"} \cup WatchErrors) :
             /\ DomainRejected(c[1]) => c[2]
             /\ (DomainRejected(c[1]) \/ ~c[2]) => c[3] = "ok"
             /\ (~DomainRejected(c[1]) /\ FreeBrowsers(Mem) = {}) => ~c[2]}
    ELSE IF AliveBrowsers(Mem) = {}
    THEN {<<NoDomain, TRUE, "ok">>}
    ELSE {}

\* the stable advertisements of the bound scenario not yet tracked by b
Untracked(b) ==
    {t \in StableSrv : get_server_info(Mem, b, t[1], t[2], t[3]) = NULL}

\* the bound scenario first reports its stable advertisements, one after the
\* other, and they stay; every other record comes and goes at any time
Reports(b) ==
    IF scenario = "bound" /\ Untracked(b) # {}
    THEN {<<t, "AVAHI_BROWSER_NEW">> : t \in
             {u \in Untracked(b) :
                 \A v \in Untracked(b) : u[3].name <= v[3].name}}
    ELSE VariedSrv(scenario) \X {"AVAHI_BROWSER_NEW", "AVAHI_BROWSER_REMOVE"}

\* what else decides a run of record_browser_callback: whether avahi_new and
\* avahi_host_name_resolver_new succeed (they are asked for an untracked key
\* below the limit only), what a never written address reads as, what the
\* caller does in its callback and what follows a use of freed memory:
\* <<allocOK, hnrOK, garbage, cb, ub>>
Chances(b, rep) ==
    IF rep[2] = "AVAHI_BROWSER_NEW"
    THEN (IF IsStable(rep[1][3]) THEN {<<TRUE, TRUE>>}
          ELSE IF get_server_info(Mem, b, rep[1][1], rep[1][2], rep[1][3]) # NULL
                  \/ AtLimit(browsers[b].n_info)
          THEN {<<TRUE, TRUE>>}
          ELSE IF FreeCells(Mem) = {} THEN {<<FALSE, FALSE>>}
          ELSE {<<FALSE, FALSE>>, <<TRUE, FALSE>>, <<TRUE, TRUE>>})
         \X {<<"garbage", "return", "continue">>}
    ELSE LET k == get_server_info(Mem, b, rep[1][1], rep[1][2], rep[1][3])
         IN  {<<TRUE, TRUE>>}
             \X {<<g, c[1], c[2]>> :
                    g \in IF k # NULL /\ browsers[b].info[k].address = Uninit
                          THEN AddressValues ELSE {"garbage"},
                    c \in {<<"return", "continue">>, <<"free", "continue">>,
                           <<"free", "abort">>}}

\* the stable advertisements are tracked without failure and their lookups
\* stay outstanding
Answering ==
    {h \in resolvers :
        \A l \in CellLocations(Mem, h) :
            ~IsStable(browsers[l[1]].info[l[2]].srv_record)}

\* the results of a resolver: <<event, address, cb, ub>>
Answers ==
    {<<"AVAHI_RESOLVER_TIMEOUT", "garbage", <<"return", "continue">>>>}
    \cup ({"AVAHI_RESOLVER_FOUND"} \X Resolvable(scenario)
          \X {<<"return", "continue">>, <<"free", "continue">>, <<"free", "abort">>})

Next ==
    \/ \E c \in NewCalls : avahi_dns_server_browser_new(c[1], c[2], c[3])
    \/ \E b \in BrowserIds : BrowserFree(b)
    \/ \E w \in record_browsers : \E rep \in Reports(w.userdata) :
       \E c \in Chances(w.userdata, rep) :
          record_browser_callback(w, rep[1][1], rep[1][2], rep[2], rep[1][3],
                                  c[1][1], c[1][2], c[2][1], c[2][2], c[2][3])
    \/ \E h \in Answering, r \in Answers :
          host_name_resolver_callback(h, r[1], r[2], r[3][1], r[3][2])

Spec == Init /\ [][Next]_vars

-----------------------------------------------------------------------------
(* glib-watch-test: main arms a watch on stdin and a wakeup and runs a     *)
(* glib main loop; the poll adapter calls callback when fd 0 is readable   *)
(* and wakeup when the armed time has come.  An armed wakeup is delivered  *)
(* once; set_wakeup arms the one wakeup of the poll anew.                  *)

\* read() == 0
EOF == -1
\* a printable byte and a control byte
Bytes == {65, 10}
\* '.'
Dot == 46
\* AvahiWatchEvent
WatchEvents == {"AVAHI_WATCH_IN", "AVAHI_WATCH_HUP"}
\* what fd 0 can deliver: up to MaxInput bytes, then end of file or nothing
Inputs ==
    {d \o e : d \in UNION {[1 .. n -> Bytes] : n \in 0 .. MaxInput},
              e \in {<<>>, <<EOF>>}}

\* c >= 32 && c < 127 ? c : '.'
Printable(c) == IF c >= 32 /\ c < 127 THEN c ELSE Dot

\* (the test gone wrong: the loop is stopped one wakeup early)
QuitDueEarly(n) == n >= 10

\* if (i > 10)
QuitDue(n) == n > 10

\* main up to g_main_loop_run
main ==
    /\ test_pc = "main"
    /\ stdin_watch' = "alive"
    /\ wakeup_set' = TRUE
    /\ loop_quit' = FALSE
    /\ test_pc' = "run"
    /\ UNCHANGED <<wakeup_i, stdin, stdout, invocations, exit_status>>
    /\ UNCHANGED server_vars

\* callback: fd 0 has an event; failed: read() returned an error
callback(event, failed) ==
    /\ test_pc = "run"
    /\ stdin_watch = "alive"
    /\ event = "AVAHI_WATCH_IN" => (failed \/ stdin # <<>>)
    /\ IF event = "AVAHI_WATCH_IN"
       THEN IF failed \/ Head(stdin) = EOF
            THEN /\ stdout' = Line(IF failed THEN "read() failed: strerror"
                                   ELSE "read() failed: EOF", 0)
                 /\ stdin_watch' = "freed"
                 /\ UNCHANGED stdin
            ELSE /\ stdout' = Line("Read: ", Printable(Head(stdin)))
                 /\ stdin' = Tail(stdin)
                 /\ UNCHANGED stdin_watch
       ELSE UNCHANGED <<stdin, stdout, stdin_watch>>
    /\ UNCHANGED <<test_pc, wakeup_i, wakeup_set, loop_quit, invocations,
                   exit_status>>
    /\ UNCHANGED server_vars

\* wakeup: the armed wakeup is delivered while the loop runs
wakeup ==
    /\ test_pc = "run"
    /\ ~loop_quit
    /\ wakeup_set
    /\ stdout' = Line("Wakeup #", wakeup_i)
    /\ wakeup_i' = wakeup_i + 1
    /\ loop_quit' = QuitDue(wakeup_i + 1)
    /\ wakeup_set' = TRUE
    /\ invocations' = invocations + 1
    /\ UNCHANGED <<test_pc, stdin_watch, stdin, exit_status>>
    /\ UNCHANGED server_vars

\* g_main_loop_run returns after g_main_loop_quit; main returns 0
main_returns ==
    /\ test_pc = "run"
    /\ loop_quit
    /\ test_pc' = "exit"
    /\ exit_status' = 0
    /\ UNCHANGED <<wakeup_i, wakeup_set, stdin_watch, loop_quit, stdin, stdout,
                   invocations>>
    /\ UNCHANGED server_vars

WatchTestInit ==
    /\ scenario = "none"
    /\ NoBrowsers
    /\ test_pc = "main"
    /\ stdin \in Inputs
    /\ NotStarted

WatchTestNext ==
    \/ main
    \/ \E event \in WatchEvents, failed \in BOOLEAN : callback(event, failed)
    \/ wakeup
    \/ main_returns

\* main runs, the poll delivers every armed wakeup, and g_main_loop_run
\* returns once the loop was asked to quit
WatchTestSpec ==
    /\ WatchTestInit
    /\ [][WatchTestNext]_vars
    /\ WF_vars(main)
    /\ WF_vars(wakeup)
    /\ WF_vars(main_returns)

-----------------------------------------------------------------------------
(* Vocabulary of the properties.  A step is described by the call last'    *)
(* records and by the state before it.                                     *)

RecordCall(c, ev) == c.op = "record_browser_callback" /\ c.event = ev
ResolverCall(c) == c.op = "host_name_resolver_callback"
NewCall(c) == c.op = "avahi_dns_server_browser_new"
FreeCall(c) == c.op = "avahi_dns_server_browser_free"

\* the entries of browser b in bs with the key (interface, protocol, record
\* without its TTL)
Tracked(bs, b, interface, protocol, r) ==
    {k \in 1 .. Len(bs[b].info) :
        /\ bs[b].info[k].interface = interface
        /\ bs[b].info[k].protocol = protocol
        /\ bs[b].info[k].srv_record.name = r.name
        /\ bs[b].info[k].srv_record.port = r.port}

\* the entries of the key the call c is about
TrackedOf(bs, c) == Tracked(bs, c.browser, c.interface, c.protocol, c.record)

\* the notification of kind about entry i of browser b with address a
Notification(kind, b, i, a) ==
    [kind |-> kind, browser |-> b, interface |-> i.interface,
     protocol |-> i.protocol, name |-> i.srv_record.name, address |-> a,
     port |-> i.srv_record.port]

\* the server the caller remembers from the NEW notification of entry i
Announced(b, i, a) ==
    [browser |-> b, interface |-> i.interface, protocol |-> i.protocol,
     name |-> i.srv_record.name, address |-> a, port |-> i.srv_record.port]

KnownKeys == {EventKey(x) : x \in known}

\* the key of entry i of browser b
EntryKey(b, i) == SrvKey(b, i.interface, i.protocol, i.srv_record)
\* the key the call c is about
CallKey(c) == SrvKey(c.browser, c.interface, c.protocol, c.record)
\* an entry without resolver and without address: its resolution failed or
\* never started
Unresolved(i) == i.host_name_resolver = NULL /\ i.address = Uninit
\* the keys with an entry in bs
TrackedKeys(bs) ==
    UNION {{EntryKey(b, bs[b].info[k]) : k \in 1 .. Len(bs[b].info)} :
              b \in BrowserIds}

-----------------------------------------------------------------------------
(* C1: every public REMOVE for a key follows a public NEW for that key     *)
(* with no public REMOVE for it in between; an entry that never resolved   *)
(* is removed without a public event.                                      *)
C1_RemoveFollowsNew ==
    [][\A k \in 1 .. Len(last'.emitted) :
          last'.emitted[k].kind = "AVAHI_BROWSER_REMOVE"
              => EventKey(last'.emitted[k]) \in KnownKeys]_vars

(* C2: an SRV REMOVE for a tracked entry whose resolution delivered found  *)
(* emits exactly one public REMOVE with the entry's interface, protocol,   *)
(* SRV target name, port and the address the public NEW carried, and then  *)
(* the entry is out of the collection and the live count is one lower.     *)
C2_RemoveOfResolvedEntry ==
    [][(/\ RecordCall(last', "AVAHI_BROWSER_REMOVE")
        /\ TrackedOf(browsers, last') # {}
        /\ \A k \in TrackedOf(browsers, last') :
              browsers[last'.browser].info[k].address \in Addresses)
       => LET b == last'.browser
              i == browsers[b].info[SetMin(TrackedOf(browsers, last'))]
          IN  /\ last'.emitted =
                     <<Notification("AVAHI_BROWSER_REMOVE", b, i, i.address)>>
              /\ Announced(b, i, i.address) \in known
              /\ ~crashed'
              /\ browsers'[b].alive
              /\ TrackedOf(browsers', last') = {}
              /\ Len(browsers'[b].info) = Len(browsers[b].info) - 1
              /\ browsers'[b].n_info = browsers[b].n_info - 1]_vars

(* C3: a public NEW is emitted only by host_name_resolver_callback on a    *)
(* found outcome and at most once per entry: an SRV NEW and a not-found    *)
(* outcome emit nothing, and a found outcome emits exactly one NEW with    *)
(* the entry's interface, protocol, target name, port and the address      *)
(* just resolved.                                                          *)
C3_NewOnlyOnFound ==
    [][/\ \A k \in 1 .. Len(last'.emitted) :
              last'.emitted[k].kind = "AVAHI_BROWSER_NEW"
                  => ResolverCall(last') /\ last'.event = "AVAHI_RESOLVER_FOUND"
       /\ RecordCall(last', "AVAHI_BROWSER_NEW") => last'.emitted = <<>>
       /\ (ResolverCall(last') /\ last'.event # "AVAHI_RESOLVER_FOUND")
              => last'.emitted = <<>>
       /\ (ResolverCall(last') /\ last'.event = "AVAHI_RESOLVER_FOUND")
              => \E l \in CellLocations(Mem, last'.cell) :
                    LET i == browsers[l[1]].info[l[2]]
                    IN  /\ last'.emitted =
                               <<Notification("AVAHI_BROWSER_NEW", l[1], i,
                                              last'.address)>>
                        /\ EventKey(Announced(l[1], i, last'.address))
                               \notin KnownKeys]_vars

W_C3_FoundAnnounced ==
    /\ ResolverCall(last)
    /\ last.event = "AVAHI_RESOLVER_FOUND"
    /\ Len(last.emitted) = 1
    /\ last.emitted[1].address = "192.0.2.2"
    /\ browsers[last.browser].alive

(* C4: the live entry count of a browser is at most 10, and an SRV NEW for *)
(* an untracked key that arrives at count 10 creates no entry, starts no   *)
(* resolution and emits no public event.                                   *)
C4_AtMostTenEntries ==
    [][/\ \A b \in BrowserIds : browsers'[b].n_info <= 10
       /\ (/\ RecordCall(last', "AVAHI_BROWSER_NEW")
           /\ browsers[last'.browser].n_info = 10
           /\ TrackedOf(browsers, last') = {})
          => /\ UNCHANGED <<browsers, resolvers, known>>
             /\ last'.emitted = <<>>]_vars

W_C4_IgnoredAtLimit ==
    /\ RecordCall(last, "AVAHI_BROWSER_NEW")
    /\ browsers[last.browser].alive
    /\ browsers[last.browser].n_info = 10
    /\ Len(browsers[last.browser].info) = 10
    /\ TrackedOf(browsers, last) = {}

(* C5: no two entries of a browser have the same key (interface, protocol, *)
(* record without TTL); an SRV NEW whose key is tracked, also with another *)
(* TTL, creates no entry, starts no resolution and emits nothing, and an   *)
(* SRV NEW that differs in interface or protocol is a key of its own.      *)
C5_OneEntryPerKey ==
    [][/\ \A b \in BrowserIds : \A j, k \in 1 .. Len(browsers'[b].info) :
              (/\ browsers'[b].info[j].interface = browsers'[b].info[k].interface
               /\ browsers'[b].info[j].protocol = browsers'[b].info[k].protocol
               /\ browsers'[b].info[j].srv_record.name
                      = browsers'[b].info[k].srv_record.name
               /\ browsers'[b].info[j].srv_record.port
                      = browsers'[b].info[k].srv_record.port) => j = k
       /\ (RecordCall(last', "AVAHI_BROWSER_NEW") /\ TrackedOf(browsers, last') # {})
          => /\ UNCHANGED <<browsers, resolvers, known>>
             /\ last'.emitted = <<>>
       /\ (/\ RecordCall(last', "AVAHI_BROWSER_NEW")
           /\ TrackedOf(browsers, last') = {}
           /\ browsers[last'.browser].n_info < 10
           /\ last'.alloc_ok)
          => /\ Len(browsers'[last'.browser].info)
                    = Len(browsers[last'.browser].info) + 1
             /\ TrackedOf(browsers', last') = {1}]_vars

W_C5_DuplicateIgnored ==
    /\ RecordCall(last, "AVAHI_BROWSER_NEW")
    /\ browsers[last.browser].alive
    /\ \E k \in TrackedOf(browsers, last) :
          browsers[last.browser].info[k].srv_record.ttl # last.record.ttl
    /\ \E j, k \in 1 .. Len(browsers[last.browser].info) :
          /\ browsers[last.browser].info[j].srv_record
                 = browsers[last.browser].info[k].srv_record
          /\ browsers[last.browser].info[j].interface
                 # browsers[last.browser].info[k].interface

(* C6: avahi_dns_server_browser_free, in any state, destroys every entry  *)
(* of the browser, cancels every resolution still active, takes the        *)
(* browser out of the server's registry and releases its record watch,     *)
(* without a public event; afterwards nothing is left that could call the  *)
(* public callback of that browser.                                        *)
C6_FreeIsCompleteAndSilent ==
    [][/\ \A b \in BrowserIds :
              (browsers[b].alive /\ ~browsers'[b].alive)
                  => /\ browsers'[b].info = <<>>
                     /\ \A k \in 1 .. Len(browsers[b].info) :
                            browsers[b].info[k].id \notin resolvers'
                     /\ \A k \in 1 .. Len(dns_server_browsers') :
                            dns_server_browsers'[k] # b
                     /\ Len(dns_server_browsers') = Len(dns_server_browsers) - 1
                     /\ \A w \in record_browsers' : w.userdata # b
                     /\ \A x \in known' : x.browser # b
       /\ FreeCall(last')
              => /\ browsers[last'.browser].alive
                 /\ ~browsers'[last'.browser].alive
                 /\ last'.emitted = <<>>
       /\ \A k \in 1 .. Len(last'.emitted) :
              browsers[last'.emitted[k].browser].alive
       /\ \A w \in record_browsers' : browsers'[w.userdata].alive
       /\ \A h \in resolvers' : CellLocations(Mem', h) # {}]_vars

W_C6_FreedWithEntries ==
    /\ ResolverCall(last)
    /\ Len(last.emitted) = 1
    /\ ~browsers[last.browser].alive
    /\ resolvers = {}
    /\ record_browsers = {}
    /\ dns_server_browsers = <<>>
    /\ scenario = "pipeline"

(* C7: when the caller frees the browser inside the public NEW, what       *)
(* host_name_resolver_callback does after the notification returns does    *)
(* not read, write or release the destroyed entry, its resolver or the     *)
(* browser, and releases no resolver twice.                                *)
C7_ResolverCallbackSafeAfterFree ==
    ResolverCall(last) => last.faults = {}

(* C8: when the caller frees the browser inside the public REMOVE, the     *)
(* entry destruction of record_browser_callback after the notification     *)
(* does not touch the destroyed entry or browser: no entry is destroyed    *)
(* twice, n_info >= 1 is not violated and no freed browser is accessed.    *)
C8_RecordCallbackSafeAfterFree ==
    (last.op = "record_browser_callback") => last.faults = {}

(* C9: avahi_dns_server_browser_new with a non-null domain that is not a   *)
(* valid domain name returns no browser, sets the error InvalidDomainName  *)
(* and allocates and registers nothing.                                    *)
C9_InvalidDomainRejected ==
    [][(NewCall(last') /\ last'.domain = <<"bad", "", "name">>)
       => /\ last'.ret = NULL
          /\ errno' = "AVAHI_ERR_INVALID_DOMAIN_NAME"
          /\ last'.emitted = <<>>
          /\ UNCHANGED <<browsers, dns_server_browsers, record_browsers,
                         resolvers, known>>]_vars

W_C9_InvalidDomain ==
    /\ NewCall(last)
    /\ last.domain = <<"bad", "", "name">>
    /\ last.ret = NULL
    /\ errno = "AVAHI_ERR_INVALID_DOMAIN_NAME"
    /\ Len(dns_server_browsers) = 1
    /\ record_browsers # {}

(* C10: when the record watch fails to start, the constructor tears the    *)
(* new browser down: it returns no browser, the registry and the other     *)
(* browsers are as before the call, the error is the one the record watch  *)
(* set, and no public event is emitted.                                    *)
C10_WatchFailureTornDown ==
    [][(/\ NewCall(last')
        /\ last'.domain # <<"bad", "", "name">>
        /\ last'.alloc_ok
        /\ last'.watch # "ok")
       => /\ last'.ret = NULL
          /\ errno' = last'.watch
          /\ last'.emitted = <<>>
          /\ UNCHANGED <<browsers, dns_server_browsers, record_browsers,
                         resolvers, known>>]_vars

W_C10_WatchFailed ==
    /\ NewCall(last)
    /\ last.domain = <<"local", "">>
    /\ last.alloc_ok
    /\ last.watch = "AVAHI_ERR_INVALID_KEY"
    /\ last.ret = NULL
    /\ errno = "AVAHI_ERR_INVALID_KEY"
    /\ Len(dns_server_browsers) = 1
    /\ browsers[dns_server_browsers[1]].n_info = 1

(* C11: an SRV NEW ignored at the limit of 10 is never admitted later on   *)
(* its own: an entry and a resolution are created only by an SRV NEW and   *)
(* only for the key of that SRV NEW, so a key whose last SRV NEW was       *)
(* ignored stays untracked when an SRV REMOVE frees a slot; and an SRV NEW *)
(* for an untracked key that finds a free slot creates an entry and starts *)
(* a resolution.                                                           *)
C11_NoRetroactiveAdmission ==
    [][/\ \A key \in TrackedKeys(browsers') \ TrackedKeys(browsers) :
              RecordCall(last', "AVAHI_BROWSER_NEW") /\ key = CallKey(last')
       /\ \A h \in resolvers' \ resolvers :
              /\ RecordCall(last', "AVAHI_BROWSER_NEW")
              /\ \E k \in TrackedOf(browsers', last') :
                     browsers'[last'.browser].info[k].host_name_resolver = h
       /\ \A key \in ignored' : key \notin TrackedKeys(browsers')
       /\ RecordCall(last', "AVAHI_BROWSER_REMOVE")
              => /\ TrackedKeys(browsers') \subseteq TrackedKeys(browsers)
                 /\ resolvers' \subseteq resolvers
                 /\ ignored' \subseteq ignored
       /\ (/\ RecordCall(last', "AVAHI_BROWSER_NEW")
           /\ TrackedOf(browsers, last') = {}
           /\ browsers[last'.browser].n_info < 10
           /\ last'.alloc_ok)
          => /\ TrackedOf(browsers', last') # {}
             /\ browsers'[last'.browser].n_info
                    = browsers[last'.browser].n_info + 1
             /\ CallKey(last') \notin ignored'
             /\ last'.hnr_ok
                    => \E k \in TrackedOf(browsers', last') :
                          browsers'[last'.browser].info[k].host_name_resolver
                              \in resolvers' \ resolvers]_vars

W_C11_SlotFreedKeyStillIgnored ==
    /\ RecordCall(last, "AVAHI_BROWSER_REMOVE")
    /\ browsers[last.browser].alive
    /\ browsers[last.browser].n_info = 9
    /\ Len(browsers[last.browser].info) = 9
    /\ \E key \in ignored :
          key[1] = last.browser /\ key \notin TrackedKeys(browsers)

(* C12: host resolution is one-shot per entry: a resolver handle enters an *)
(* entry only when the SRV NEW of its key creates the entry; a resolver    *)
(* event is handled only for an entry whose reference is still that        *)
(* resolver, and after it the resolver is released and the reference is    *)
(* empty, so that the reference is never set again and no second event is  *)
(* handled for the entry.                                                  *)
C12_ResolutionOneShot ==
    [][/\ \A b \in BrowserIds : \A k \in 1 .. Len(browsers'[b].info) :
              LET i == browsers'[b].info[k]
              IN  i.host_name_resolver # NULL
                      => \/ \E l \in CellLocations(Mem, i.id) :
                               /\ l[1] = b
                               /\ browsers[b].info[l[2]].host_name_resolver
                                      = i.host_name_resolver
                               /\ EntryKey(b, browsers[b].info[l[2]]) = EntryKey(b, i)
                         \/ /\ RecordCall(last', "AVAHI_BROWSER_NEW")
                            /\ CallKey(last') = EntryKey(b, i)
                            /\ CallKey(last') \notin TrackedKeys(browsers)
                            /\ i.host_name_resolver \notin resolvers
       /\ \A h \in resolvers' :
              \E l \in CellLocations(Mem', h) :
                  browsers'[l[1]].info[l[2]].host_name_resolver = h
       /\ ResolverCall(last')
              => /\ CellLocations(Mem, last'.cell) # {}
                 /\ \A l \in CellLocations(Mem, last'.cell) :
                        browsers[l[1]].info[l[2]].host_name_resolver = last'.cell
                 /\ last'.cell \notin resolvers'
                 /\ \A l \in CellLocations(Mem', last'.cell) :
                        browsers'[l[1]].info[l[2]].host_name_resolver = NULL]_vars

W_C12_ResolverReleased ==
    /\ ResolverCall(last)
    /\ last.event = "AVAHI_RESOLVER_TIMEOUT"
    /\ last.cell \notin resolvers
    /\ \E l \in CellLocations(Mem, last.cell) :
          /\ browsers[l[1]].info[l[2]].host_name_resolver = NULL
          /\ browsers[l[1]].info[l[2]].srv_record = last.record
    /\ resolvers # {}

(* C13: for every live browser n_info is the number of entries in b->info, *)
(* whatever SRV NEW, SRV REMOVE and resolver events it has handled; it is  *)
(* 0 right after construction, and 0 when avahi_dns_server_browser_free    *)
(* has destroyed all entries.                                              *)
C13_CountIsLength ==
    [][/\ \A b \in BrowserIds :
              browsers'[b].alive
                  => /\ browsers'[b].n_info = Len(browsers'[b].info)
                     /\ FreeInfos(Mem', b).browsers[b].n_info = 0
                     /\ FreeInfos(Mem', b).browsers[b].info = <<>>
       /\ (NewCall(last') /\ last'.ret # NULL)
              => /\ browsers'[last'.ret].alive
                 /\ browsers'[last'.ret].n_info = 0
                 /\ browsers'[last'.ret].info = <<>>]_vars

W_C13_CountedAfterRemove ==
    /\ RecordCall(last, "AVAHI_BROWSER_REMOVE")
    /\ last.emitted # <<>>
    /\ browsers[last.browser].alive
    /\ TrackedOf(browsers, last) = {}
    /\ browsers[last.browser].n_info = 1
    /\ Len(browsers[last.browser].info) = 1
    /\ scenario = "pipeline"

(* C14: a resolver outcome other than found emits no public event and      *)
(* leaves the entry in b->info without address: the entry is still         *)
(* counted, an SRV NEW for its key is still ignored as a duplicate, no     *)
(* resolver is started for it again, and it stays until an SRV REMOVE for  *)
(* its key deletes it.                                                     *)
C14_FailedEntryStays ==
    [][/\ (ResolverCall(last') /\ last'.event # "AVAHI_RESOLVER_FOUND")
          => /\ last'.emitted = <<>>
             /\ last'.faults = {}
             /\ UNCHANGED <<known, crashed, dns_server_browsers, record_browsers>>
             /\ resolvers' = resolvers \ {last'.cell}
             /\ \A b \in BrowserIds :
                    /\ browsers'[b].alive = browsers[b].alive
                    /\ browsers'[b].n_info = browsers[b].n_info
                    /\ Len(browsers'[b].info) = Len(browsers[b].info)
                    /\ \A k \in 1 .. Len(browsers[b].info) :
                           browsers'[b].info[k] =
                               IF browsers[b].info[k].id = last'.cell
                               THEN [browsers[b].info[k] EXCEPT
                                        !.host_name_resolver = NULL]
                               ELSE browsers[b].info[k]
             /\ \E l \in CellLocations(Mem', last'.cell) :
                    Unresolved(browsers'[l[1]].info[l[2]])
       /\ \A b \in BrowserIds : \A k \in 1 .. Len(browsers[b].info) :
              LET i == browsers[b].info[k]
              IN  Unresolved(i)
                  => /\ (RecordCall(last', "AVAHI_BROWSER_NEW")
                         /\ CallKey(last') = EntryKey(b, i))
                        => /\ UNCHANGED <<browsers, resolvers, known>>
                           /\ last'.emitted = <<>>
                     /\ (RecordCall(last', "AVAHI_BROWSER_REMOVE")
                         /\ CallKey(last') = EntryKey(b, i))
                        => EntryKey(b, i) \notin TrackedKeys(browsers')
                     /\ (/\ browsers'[b].alive
                         /\ ~(RecordCall(last', "AVAHI_BROWSER_REMOVE")
                              /\ CallKey(last') = EntryKey(b, i)))
                        => \E j \in 1 .. Len(browsers'[b].info) :
                              browsers'[b].info[j] = i
       /\ (/\ RecordCall(last', "AVAHI_BROWSER_NEW")
           /\ Len(browsers[last'.browser].info) = 10
           /\ TrackedOf(browsers, last') = {})
          => UNCHANGED <<browsers, resolvers>>]_vars

W_C14_FailedEntryCounted ==
    /\ ResolverCall(last)
    /\ last.event = "AVAHI_RESOLVER_TIMEOUT"
    /\ last.emitted = <<>>
    /\ \E l \in CellLocations(Mem, last.cell) :
          /\ Unresolved(browsers[l[1]].info[l[2]])
          /\ browsers[l[1]].n_info = 10
          /\ Len(browsers[l[1]].info) = 10

(* C15: allocation failures in an SRV NEW are silent and not fatal: when   *)
(* avahi_new fails nothing changes; when the resolver cannot be started    *)
(* the entry is inserted with an empty resolver reference and counted;     *)
(* neither emits a public event nor sets an error, and no public event is  *)
(* emitted for the entry inserted without resolver, in the SRV NEW or in   *)
(* the call after it.                                                      *)
C15_AllocationFailuresSilent ==
    [][/\ (RecordCall(last', "AVAHI_BROWSER_NEW") /\ ~last'.alloc_ok)
          => /\ UNCHANGED <<browsers, dns_server_browsers, record_browsers,
                            resolvers, errno, known, crashed>>
             /\ last'.emitted = <<>>
             /\ last'.faults = {}
       /\ (RecordCall(last', "AVAHI_BROWSER_NEW") /\ last'.alloc_ok
                /\ ~last'.hnr_ok)
          => LET b == last'.browser
             IN  /\ Len(browsers'[b].info) = Len(browsers[b].info) + 1
                 /\ Tail(browsers'[b].info) = browsers[b].info
                 /\ EntryKey(b, browsers'[b].info[1]) = CallKey(last')
                 /\ Unresolved(browsers'[b].info[1])
                 /\ browsers'[b].n_info = browsers[b].n_info + 1
                 /\ UNCHANGED <<dns_server_browsers, record_browsers,
                                resolvers, errno, known, crashed>>
                 /\ last'.emitted = <<>>
                 /\ last'.faults = {}
       /\ (RecordCall(last, "AVAHI_BROWSER_NEW") /\ last.alloc_ok
                /\ ~last.hnr_ok)
          => \A k \in 1 .. Len(last'.emitted) :
                 EventKey(last'.emitted[k]) # CallKey(last)]_vars

(* C16: an SRV REMOVE whose key matches no entry changes nothing and emits *)
(* nothing; an SRV REMOVE that matches an entry, also with another TTL     *)
(* than the SRV NEW had, destroys that entry and its resolver and leaves   *)
(* every other entry, with its resolver and its address, as it was.        *)
C16_RemoveTouchesOneEntry ==
    [][/\ (RecordCall(last', "AVAHI_BROWSER_REMOVE")
                /\ TrackedOf(browsers, last') = {})
          => /\ UNCHANGED <<browsers, dns_server_browsers, record_browsers,
                            resolvers, errno, known, crashed>>
             /\ last'.emitted = <<>>
       /\ (RecordCall(last', "AVAHI_BROWSER_REMOVE")
                /\ TrackedOf(browsers, last') # {})
          => LET b == last'.browser
                 k == SetMin(TrackedOf(browsers, last'))
                 i == browsers[b].info[k]
             IN  /\ browsers' =
                        [browsers EXCEPT ![b].info = RemoveAt(@, k),
                                         ![b].n_info = @ - 1]
                 /\ resolvers' = resolvers \ {i.host_name_resolver}
                 /\ last'.faults = {}
                 /\ UNCHANGED <<dns_server_browsers, record_browsers, errno,
                                crashed>>]_vars

(* C17: an entry destroyed while its resolution is pending, by an SRV      *)
(* REMOVE or by freeing the browser, takes its resolver with it: every     *)
(* resolver alive belongs to an entry that waits for it, a resolver event  *)
(* is handled only for such an entry, and a public NEW for a key comes     *)
(* only from the resolver of the entry that is tracked for the key.        *)
C17_DestroyedEntryIsCancelled ==
    [][/\ \A b \in BrowserIds : \A k \in 1 .. Len(browsers[b].info) :
              LET i == browsers[b].info[k]
              IN  (i.id \notin LiveCells(Mem') /\ i.host_name_resolver # NULL)
                      => i.host_name_resolver \notin resolvers'
       /\ \A h \in resolvers' :
              /\ CellLocations(Mem', h) # {}
              /\ \A l \in CellLocations(Mem', h) :
                     browsers'[l[1]].info[l[2]].host_name_resolver = h
       /\ ResolverCall(last')
              => /\ last'.cell \in resolvers
                 /\ CellLocations(Mem, last'.cell) # {}
       /\ \A n \in 1 .. Len(last'.emitted) :
              last'.emitted[n].kind = "AVAHI_BROWSER_NEW"
                  => /\ ResolverCall(last')
                     /\ \E l \in CellLocations(Mem, last'.cell) :
                            LET i == browsers[l[1]].info[l[2]]
                            IN  /\ i.host_name_resolver = last'.cell
                                /\ EntryKey(l[1], i) = EventKey(last'.emitted[n])]_vars

W_C17_PendingEntryRemoved ==
    /\ RecordCall(last, "AVAHI_BROWSER_REMOVE")
    /\ last.cell # NULL
    /\ last.emitted = <<>>
    /\ browsers[last.browser].alive
    /\ last.cell \notin LiveCells(Mem)
    /\ last.cell \notin resolvers
    /\ resolvers # {}

(* C18: between two handler runs every entry has at most one of resolver   *)
(* handle and resolved address: an entry whose resolution is pending has   *)
(* no address, and an entry with an address has no resolver.               *)
C18_HandleOrAddress ==
    \A b \in BrowserIds : \A k \in 1 .. Len(browsers[b].info) :
        LET i == browsers[b].info[k]
        IN  /\ i.host_name_resolver # NULL
                => i.address = Uninit /\ i.host_name_resolver \in resolvers
            /\ i.address # Uninit
                => i.address \in Addresses /\ i.host_name_resolver = NULL

W_C18_PendingAndResolved ==
    \E b \in BrowserIds : \E j, k \in 1 .. Len(browsers[b].info) :
        /\ browsers[b].info[j].host_name_resolver # NULL
        /\ browsers[b].info[j].address = Uninit
        /\ browsers[b].info[k].host_name_resolver = NULL
        /\ browsers[b].info[k].address = "192.0.2.2"

(* C19: in glib-watch-test every run of wakeup leaves exactly one wakeup   *)
(* armed; the loop is asked to quit in the 11th run, the one that prints   *)
(* "Wakeup #10", and in none before; and when every armed wakeup is        *)
(* delivered, the loop quits and main returns 0.                           *)
C19_WakeupsQuitTheLoop ==
    /\ [][invocations' # invocations
             => /\ invocations' = invocations + 1
                /\ wakeup_set /\ wakeup_set'
                /\ stdout' = Line("Wakeup #", invocations)
                /\ ~loop_quit
                /\ loop_quit' <=> invocations' = 11]_vars
    /\ [](loop_quit => invocations = 11)
    /\ [](test_pc = "exit" => exit_status = 0 /\ invocations = 11)
    /\ <>(test_pc = "exit" /\ exit_status = 0)

W_C19_ExitedAfterEleven ==
    /\ test_pc = "exit"
    /\ exit_status = 0
    /\ invocations = 11
    /\ wakeup_i = 11
    /\ wakeup_set
    /\ stdin_watch = "freed"
    /\ stdin = <<EOF>>

====
